---- MODULE Spec2Model ----
(***************************************************************************)
(* The rent escrow contract MyPSP34 of src/Ink-contract-Lib.rs as a state  *)
(* machine.  The contract storage is the map `escrows`; the five messages  *)
(* create_escrow, rent, pay_rent, lease_ended and cancel_lease are the     *)
(* actions.  A message that panics is reverted by the host: its storage    *)
(* writes and the value attached to it are undone.                         *)
(***************************************************************************)
EXTENDS Integers, Sequences, FiniteSets, TLC

(* ---- bounds of the model ---------------------------------------------- *)
\* number of escrow identifiers (Hash values) in play
NumIds == 2
\* number of accounts (AccountId values) in play
NumAccounts == 2
\* largest value of the Balance type (u128 in the contract, scaled down)
BalanceMax == 2
\* largest value of a u64 timestamp / duration (scaled down)
U64Max == 2
\* the environment stops attaching value once the contract holds this much
MaxHeld == 3

EscrowIds == 1..NumIds
Accounts == 1..NumAccounts
Balances == 0..BalanceMax
Timestamps == 0..U64Max

\* the (landlord, rent_amount, lease_duration) arguments create_escrow is called
\* with: the smallest rent with the longest lease, the largest rent with the
\* shortest lease
Offers ==
  {[landlord |-> 1, rent_amount |-> 1, lease_duration |-> U64Max],
   [landlord |-> NumAccounts, rent_amount |-> BalanceMax, lease_duration |-> 1]}

(* ---- panic messages of the contract ----------------------------------- *)
Ok == "ok"
NotFound == "escrow does not exist"
AlreadyLeased == "escrow is already leased"
NotLeased == "escrow is not leased yet"
NotRenter == "caller is not the renter"
NotLandlord == "caller is not the landlord"
InsufficientPayment == "insufficient rent amount"
LeaseNotExpired == "lease duration not yet passed"
TransferFailed == "failed to transfer balance"
Overflow == "attempt to add with overflow"

GuardErrors ==
  {NotFound, AlreadyLeased, NotLeased, NotRenter, NotLandlord,
   InsufficientPayment, LeaseNotExpired}

VARIABLES
  escrows,          \* MyPSP34.escrows: the HashMap from id to Escrow
  now,              \* env().block_timestamp()
  overflow_checks,  \* whether the build panics on integer overflow or wraps
  held,             \* the contract account's balance (value paid in, not yet paid out)
  deposited,        \* per id: value accepted by pay_rent since the record was created
  activations,      \* per id: successful rent calls since the record was created
  rented,           \* the ids on which a rent call has ever succeeded
  last,             \* the last message: name, arguments, fetched record, outcome
  transfers         \* the env().transfer calls made by the last message

vars ==
  <<escrows, now, overflow_checks, held, deposited, activations, rented, last,
    transfers>>

\* struct Escrow
Escrow ==
  [renter : Accounts, landlord : Accounts, rent_amount : Balances,
   lease_duration : Timestamps, lease_start_time : Timestamps,
   escrow_balance : Balances, is_leased : BOOLEAN]

\* Option<Escrow> as a sequence of length 0 or 1
None == <<>>
Some(e) == <<e>>

\* an insert that drops the entries under the other keys
insert_alone(map, k, v) == [x \in {k} |-> v]
\* HashMap::insert
insert(map, k, v) == [x \in DOMAIN map \cup {k} |-> IF x = k THEN v ELSE map[x]]
\* a removal that leaves the entry in place
remove_kept(map, k) == map
\* HashMap::remove
remove(map, k) == [x \in DOMAIN map \ {k} |-> map[x]]

\* a lookup that hands out an empty record for an unknown id instead of panicking
get_escrow_or_default(escrow_id) ==
  IF escrow_id \in DOMAIN escrows THEN Some(escrows[escrow_id])
  ELSE Some([renter |-> 1, landlord |-> 1, rent_amount |-> 0, lease_duration |-> 0,
             lease_start_time |-> 0, escrow_balance |-> 0, is_leased |-> FALSE])
\* self.escrows.get(&escrow_id): None makes get_escrow_or_revert panic
get_escrow_or_revert(escrow_id) ==
  IF escrow_id \in DOMAIN escrows THEN Some(escrows[escrow_id]) ELSE None

\* the guard left out
ensure_escrow_not_leased_skipped(escrow) == TRUE
ensure_escrow_not_leased(escrow) == ~escrow.is_leased

\* the guard left out
ensure_escrow_leased_skipped(escrow) == TRUE
ensure_escrow_leased(escrow) == escrow.is_leased

ensure_caller_is_renter(escrow, caller) == caller = escrow.renter

\* the guard left out
ensure_caller_is_landlord_skipped(escrow, caller) == TRUE
ensure_caller_is_landlord(escrow, caller) == caller = escrow.landlord

\* a strict comparison in place of >=
ensure_rent_amount_paid_strict(escrow, value) == value > escrow.rent_amount
ensure_rent_amount_paid(escrow, value) == value >= escrow.rent_amount

\* u64 addition lease_start_time + lease_duration: the exact sum and the wrapped one
expiry_sum(escrow) == escrow.lease_start_time + escrow.lease_duration
expiry_u64(escrow) == expiry_sum(escrow) % (U64Max + 1)

\* the outcome of ensure_lease_duration_passed at the current block timestamp
ensure_lease_duration_passed(escrow) ==
  IF expiry_sum(escrow) > U64Max /\ overflow_checks THEN Overflow
  ELSE IF expiry_u64(escrow) <= now THEN Ok
  ELSE LeaseNotExpired

Call(op, id, caller, value, fetched, result) ==
  [op |-> op, id |-> id, caller |-> caller, value |-> value, args |-> <<>>,
   escrow |-> fetched, result |-> result]

NoCall == Call("none", 0, 0, 0, None, Ok)

Init ==
  /\ escrows = <<>>
  /\ now = 0
  /\ overflow_checks \in BOOLEAN
  /\ held = 0
  /\ deposited = [i \in EscrowIds |-> 0]
  /\ activations = [i \in EscrowIds |-> 0]
  /\ rented = {}
  /\ last = NoCall
  /\ transfers = <<>>

\* the block timestamp is non-decreasing between messages
Tick ==
  /\ now < U64Max
  /\ now' = now + 1
  /\ last' = NoCall
  /\ transfers' = <<>>
  /\ UNCHANGED <<escrows, overflow_checks, held, deposited, activations, rented>>

\* create_escrow that keeps the record an identifier already has
create_escrow_if_absent(escrow_id, caller, landlord, rent_amount, lease_duration) ==
  LET escrow == [renter |-> caller, landlord |-> landlord,
                 rent_amount |-> rent_amount, lease_duration |-> lease_duration,
                 lease_start_time |-> 0, escrow_balance |-> 0, is_leased |-> FALSE]
  IN /\ IF escrow_id \in DOMAIN escrows
        THEN UNCHANGED <<escrows, deposited, activations>>
        ELSE /\ escrows' = insert(escrows, escrow_id, escrow)
             /\ deposited' = [deposited EXCEPT ![escrow_id] = 0]
             /\ activations' = [activations EXCEPT ![escrow_id] = 0]
     /\ last' = [Call("create_escrow", escrow_id, caller, 0, None, Ok)
                   EXCEPT !.args = <<landlord, rent_amount, lease_duration>>]
     /\ transfers' = <<>>
     /\ UNCHANGED <<now, overflow_checks, held, rented>>

create_escrow(escrow_id, caller, landlord, rent_amount, lease_duration) ==
  LET escrow == [renter |-> caller, landlord |-> landlord,
                 rent_amount |-> rent_amount, lease_duration |-> lease_duration,
                 lease_start_time |-> 0, escrow_balance |-> 0, is_leased |-> FALSE]
  IN /\ escrows' = insert(escrows, escrow_id, escrow)
     /\ deposited' = [deposited EXCEPT ![escrow_id] = 0]
     /\ activations' = [activations EXCEPT ![escrow_id] = 0]
     /\ last' = [Call("create_escrow", escrow_id, caller, 0, None, Ok)
                   EXCEPT !.args = <<landlord, rent_amount, lease_duration>>]
     /\ transfers' = <<>>
     /\ UNCHANGED <<now, overflow_checks, held, rented>>

\* the guards of rent with the caller checked before the leased state
rent_result_caller_first(fetched, caller) ==
  IF fetched = None THEN NotFound
  ELSE IF ~ensure_caller_is_renter(fetched[1], caller) THEN NotRenter
  ELSE IF ~ensure_escrow_not_leased(fetched[1]) THEN AlreadyLeased
  ELSE Ok

rent_result(fetched, caller) ==
  IF fetched = None THEN NotFound
  ELSE IF ~ensure_escrow_not_leased(fetched[1]) THEN AlreadyLeased
  ELSE IF ~ensure_caller_is_renter(fetched[1], caller) THEN NotRenter
  ELSE Ok

\* rent with the record written before the caller is checked and the failure
\* returned without a revert
rent_written_early(escrow_id, caller) ==
  LET fetched == get_escrow_or_revert(escrow_id)
      result == rent_result(fetched, caller)
  IN /\ last' = Call("rent", escrow_id, caller, 0, fetched, result)
     /\ transfers' = <<>>
     /\ IF result \in {Ok, NotRenter}
        THEN /\ escrows' = insert(escrows, escrow_id,
                                  [fetched[1] EXCEPT !.lease_start_time = now,
                                                     !.is_leased = TRUE])
             /\ activations' = [activations EXCEPT ![escrow_id] = @ + 1]
             /\ rented' = rented \cup {escrow_id}
        ELSE UNCHANGED <<escrows, activations, rented>>
     /\ UNCHANGED <<now, overflow_checks, held, deposited>>

rent(escrow_id, caller) ==
  LET fetched == get_escrow_or_revert(escrow_id)
      result == rent_result(fetched, caller)
  IN /\ last' = Call("rent", escrow_id, caller, 0, fetched, result)
     /\ transfers' = <<>>
     /\ IF result = Ok
        THEN /\ escrows' = insert(escrows, escrow_id,
                                  [fetched[1] EXCEPT !.lease_start_time = now,
                                                     !.is_leased = TRUE])
             /\ activations' = [activations EXCEPT ![escrow_id] = @ + 1]
             /\ rented' = rented \cup {escrow_id}
        ELSE UNCHANGED <<escrows, activations, rented>>
     /\ UNCHANGED <<now, overflow_checks, held, deposited>>

pay_rent_result(fetched, caller, value) ==
  IF fetched = None THEN NotFound
  ELSE IF ~ensure_escrow_leased(fetched[1]) THEN NotLeased
  ELSE IF ~ensure_caller_is_renter(fetched[1], caller) THEN NotRenter
  ELSE IF ~ensure_rent_amount_paid(fetched[1], value) THEN InsufficientPayment
  ELSE IF fetched[1].escrow_balance + value > BalanceMax /\ overflow_checks THEN Overflow
  ELSE Ok

\* an assignment in place of +=
add_balance_assign(balance, value) == value
\* escrow.escrow_balance += value, in the width of Balance
add_balance(balance, value) == (balance + value) % (BalanceMax + 1)

pay_rent(escrow_id, caller, value) ==
  LET fetched == get_escrow_or_revert(escrow_id)
      result == pay_rent_result(fetched, caller, value)
  IN /\ held + value <= MaxHeld
     /\ last' = Call("pay_rent", escrow_id, caller, value, fetched, result)
     /\ transfers' = <<>>
     /\ IF result = Ok
        THEN /\ escrows' = insert(escrows, escrow_id,
                                  [fetched[1] EXCEPT !.escrow_balance =
                                      add_balance(@, value)])
             /\ held' = held + value
             /\ deposited' = [deposited EXCEPT ![escrow_id] = @ + value]
        ELSE UNCHANGED <<escrows, held, deposited>>
     /\ UNCHANGED <<now, overflow_checks, activations, rented>>

\* self.env().transfer(caller, balance): the call made and its Result
Transfer(to, amount, ok) == [to |-> to, amount |-> amount, ok |-> ok]

\* the transfer cannot succeed for more than the contract holds
TransferResults(amount) == {ok \in BOOLEAN : ok => amount <= held}

lease_ended_guards(fetched, caller) ==
  IF fetched = None THEN NotFound
  ELSE IF ~ensure_escrow_leased(fetched[1]) THEN NotLeased
  ELSE IF ~ensure_caller_is_landlord(fetched[1], caller) THEN NotLandlord
  ELSE ensure_lease_duration_passed(fetched[1])

cancel_lease_guards(fetched, caller) ==
  IF fetched = None THEN NotFound
  ELSE IF ~ensure_escrow_not_leased(fetched[1]) THEN AlreadyLeased
  ELSE IF ~ensure_caller_is_landlord(fetched[1], caller) THEN NotLandlord
  ELSE Ok

\* the payout with the Result of the transfer ignored: the record is removed
\* whether or not the transfer went through
payout_unchecked(op, escrow_id, caller, fetched, guards) ==
  IF guards # Ok
  THEN /\ last' = Call(op, escrow_id, caller, 0, fetched, guards)
       /\ transfers' = <<>>
       /\ UNCHANGED <<escrows, held, deposited, activations>>
  ELSE LET balance == fetched[1].escrow_balance
       IN \E ok \in TransferResults(balance) :
            /\ transfers' = <<Transfer(caller, balance, ok)>>
            /\ last' = Call(op, escrow_id, caller, 0, fetched, Ok)
            /\ escrows' = remove(escrows, escrow_id)
            /\ held' = IF ok THEN held - balance ELSE held
            /\ deposited' = [deposited EXCEPT ![escrow_id] = 0]
            /\ activations' = [activations EXCEPT ![escrow_id] = 0]

\* the common tail of lease_ended and cancel_lease: transfer the balance to the
\* caller, panic if the transfer fails, remove the record
payout(op, escrow_id, caller, fetched, guards) ==
  IF guards # Ok
  THEN /\ last' = Call(op, escrow_id, caller, 0, fetched, guards)
       /\ transfers' = <<>>
       /\ UNCHANGED <<escrows, held, deposited, activations>>
  ELSE LET balance == fetched[1].escrow_balance
       IN \E ok \in TransferResults(balance) :
            /\ transfers' = <<Transfer(caller, balance, ok)>>
            /\ last' = Call(op, escrow_id, caller, 0, fetched,
                            IF ok THEN Ok ELSE TransferFailed)
            /\ IF ok
               THEN /\ escrows' = remove(escrows, escrow_id)
                    /\ held' = held - balance
                    /\ deposited' = [deposited EXCEPT ![escrow_id] = 0]
                    /\ activations' = [activations EXCEPT ![escrow_id] = 0]
               ELSE UNCHANGED <<escrows, held, deposited, activations>>

lease_ended(escrow_id, caller) ==
  LET fetched == get_escrow_or_revert(escrow_id)
  IN /\ payout("lease_ended", escrow_id, caller, fetched,
               lease_ended_guards(fetched, caller))
     /\ UNCHANGED <<now, overflow_checks, rented>>

cancel_lease(escrow_id, caller) ==
  LET fetched == get_escrow_or_revert(escrow_id)
  IN /\ payout("cancel_lease", escrow_id, caller, fetched,
               cancel_lease_guards(fetched, caller))
     /\ UNCHANGED <<now, overflow_checks, rented>>

(* ---- the contract and its environment --------------------------------- *)
Next ==
  \/ Tick
  \/ \E id \in EscrowIds, c \in Accounts, o \in Offers :
        create_escrow(id, c, o.landlord, o.rent_amount, o.lease_duration)
  \/ \E id \in EscrowIds, c \in Accounts : rent(id, c)
  \/ \E id \in EscrowIds, c \in Accounts, v \in Balances : pay_rent(id, c, v)
  \/ \E id \in EscrowIds, c \in Accounts : lease_ended(id, c)
  \/ \E id \in EscrowIds, c \in Accounts : cancel_lease(id, c)

Spec == Init /\ [][Next]_vars

(* ---- what the last message saw ---------------------------------------- *)
Found == last.escrow # None
Fetched == last.escrow[1]
Terminal == {"lease_ended", "cancel_lease"}

RECURSIVE SumBalances(_)
\* the sum of escrow_balance over the records stored under the ids in S
SumBalances(S) ==
  IF S = {} THEN 0
  ELSE LET k == CHOOSE x \in S : TRUE
       IN escrows[k].escrow_balance + SumBalances(S \ {k})

(* ---- claims ----------------------------------------------------------- *)

C3_Conservation == held = SumBalances(DOMAIN escrows)

\* C4: lease_ended by the landlord of a leased escrow fails with "lease duration
\* not yet passed" whenever now < lease_start_time + lease_duration and succeeds
\* whenever now >= lease_start_time + lease_duration (it passes the time gate and
\* goes on to the payout, which the transfer alone can still fail).
C4_TimeGate ==
  (last.op = "lease_ended" /\ Found /\ Fetched.is_leased
     /\ last.caller = Fetched.landlord)
     => /\ (now < Fetched.lease_start_time + Fetched.lease_duration)
             => last.result = LeaseNotExpired
        /\ (now >= Fetched.lease_start_time + Fetched.lease_duration)
             => last.result \in {Ok, TransferFailed}

\* C5: a message that fails a guard leaves the store as it was and issues no transfer.
C5_AllOrNothing ==
  [][(last'.op \in {"rent", "pay_rent", "lease_ended", "cancel_lease"}
        /\ last'.result \in GuardErrors)
       => (escrows' = escrows /\ held' = held /\ transfers' = <<>>)]_vars

\* a pay_rent below the rent amount was rejected on a funded escrow
C5_Witness ==
  /\ last.op = "pay_rent"
  /\ last.result = InsufficientPayment
  /\ Fetched.escrow_balance > 0

\* C6: a transfer is issued only by lease_ended and cancel_lease, at most once per
\* message and only after every guard of the message has passed; when it fails the
\* message fails with "failed to transfer balance" and the record stays as it was.
C6_PayoutDiscipline ==
  /\ Len(transfers) <= 1
  /\ transfers # <<>> =>
       /\ last.op \in Terminal
       /\ Found
       /\ Fetched.is_leased = (last.op = "lease_ended")
       /\ last.caller = Fetched.landlord
       /\ last.op = "lease_ended" =>
            (Fetched.lease_start_time + Fetched.lease_duration) % (U64Max + 1) <= now
       /\ transfers[1].to = last.caller
       /\ transfers[1].amount = Fetched.escrow_balance
       /\ transfers[1].ok = (last.result = Ok)
       /\ ~transfers[1].ok =>
            /\ last.result = TransferFailed
            /\ last.id \in DOMAIN escrows
            /\ escrows[last.id] = Fetched

\* the payout of a funded escrow failed
C6_Witness ==
  /\ transfers # <<>>
  /\ ~transfers[1].ok
  /\ transfers[1].amount > 0

\* C7: rent succeeds at most once per escrow; rent on a leased escrow fails with
\* "escrow is already leased" and leaves the record, lease_start_time included, as
\* it was.
C7_SingleActivation ==
  /\ \A id \in EscrowIds : activations[id] <= 1
  /\ (last.op = "rent" /\ Found /\ Fetched.is_leased)
       => /\ last.result = AlreadyLeased
          /\ last.id \in DOMAIN escrows
          /\ escrows[last.id] = Fetched

\* the renter called rent again, later than the lease start
C7_Witness ==
  /\ last.op = "rent"
  /\ last.result = AlreadyLeased
  /\ last.caller = Fetched.renter
  /\ now > Fetched.lease_start_time

\* C8: as long as no accumulation overflowed, escrow_balance is the sum of the
\* values of the successful pay_rent calls on the escrow.
C8_Accumulation ==
  \A id \in DOMAIN escrows :
     deposited[id] <= BalanceMax => escrows[id].escrow_balance = deposited[id]

\* a second payment was accumulated on top of a first one
C8_Witness ==
  /\ last.op = "pay_rent"
  /\ last.result = Ok
  /\ Fetched.escrow_balance > 0
  /\ last.value > 0
  /\ deposited[last.id] = Fetched.escrow_balance + last.value
  /\ deposited[last.id] <= BalanceMax

\* C9: pay_rent by the renter of a leased escrow with value < rent_amount fails
\* with "insufficient rent amount" and leaves the record as it was; with value >=
\* rent_amount it is not rejected by this guard.
C9_PaymentFloor ==
  (last.op = "pay_rent" /\ Found /\ Fetched.is_leased /\ last.caller = Fetched.renter)
     => /\ last.value < Fetched.rent_amount
             => /\ last.result = InsufficientPayment
                /\ escrows[last.id] = Fetched
        /\ last.value >= Fetched.rent_amount
             => last.result # InsufficientPayment

\* a positive payment below the rent amount was rejected
C9_Witness ==
  /\ last.op = "pay_rent"
  /\ last.result = InsufficientPayment
  /\ last.value > 0

\* C10: every stored record with is_leased = TRUE has lease_start_time > 0.
C10_LeasedHasStartTime ==
  \A id \in DOMAIN escrows :
     escrows[id].is_leased => escrows[id].lease_start_time > 0

\* C11: for as long as a record exists under an identifier, the rent_amount and
\* lease_duration stored under it never change.
C11_ImmutableTerms ==
  [][\A id \in DOMAIN escrows \cap DOMAIN escrows' :
        /\ escrows'[id].rent_amount = escrows[id].rent_amount
        /\ escrows'[id].lease_duration = escrows[id].lease_duration]_vars

Messages == {"rent", "pay_rent", "lease_ended", "cancel_lease"}

C13_GuardOrder ==
  last.op \in Messages =>
    /\ ~Found => last.result = NotFound
    /\ (Found /\ last.op \in {"rent", "cancel_lease"} /\ Fetched.is_leased)
         => last.result = AlreadyLeased
    /\ (Found /\ last.op \in {"pay_rent", "lease_ended"} /\ ~Fetched.is_leased)
         => last.result = NotLeased
    /\ (Found /\ last.op = "rent" /\ ~Fetched.is_leased
          /\ last.caller # Fetched.renter)
         => last.result = NotRenter
    /\ (Found /\ last.op = "pay_rent" /\ Fetched.is_leased
          /\ last.caller # Fetched.renter)
         => last.result = NotRenter
    /\ (Found /\ last.op = "lease_ended" /\ Fetched.is_leased
          /\ last.caller # Fetched.landlord)
         => last.result = NotLandlord
    /\ (Found /\ last.op = "cancel_lease" /\ ~Fetched.is_leased
          /\ last.caller # Fetched.landlord)
         => last.result = NotLandlord
    /\ (Found /\ last.op = "pay_rent" /\ Fetched.is_leased
          /\ last.caller = Fetched.renter /\ last.value < Fetched.rent_amount)
         => last.result = InsufficientPayment

\* an account that is not the renter called rent on an already leased escrow
C13_Witness ==
  /\ last.op = "rent"
  /\ Found
  /\ Fetched.is_leased
  /\ last.caller # Fetched.renter
  /\ last.result = AlreadyLeased

\* C14: a pay_rent whose value would take escrow_balance past the largest Balance
\* fails with an overflow error and leaves escrow_balance unchanged; the balance
\* never wraps around to a smaller value.
C14_OverflowSafety ==
  (last.op = "pay_rent" /\ Found /\ Fetched.is_leased
     /\ last.caller = Fetched.renter /\ last.value >= Fetched.rent_amount
     /\ Fetched.escrow_balance + last.value > BalanceMax)
     => /\ last.result = Overflow
        /\ escrows[last.id] = Fetched

C16_CancelAfterPayment ==
  (last.op = "cancel_lease" /\ Found /\ Fetched.is_leased
     /\ Fetched.escrow_balance > 0 /\ last.caller = Fetched.landlord)
     => /\ last.result = Ok
        /\ last.id \notin DOMAIN escrows

\* C17: create_escrow has no guards: in every state, for every caller, identifier
\* and arguments it can be called; it succeeds, issues no transfer and leaves
\* under the identifier exactly the record (renter = caller, landlord,
\* rent_amount, lease_duration = the arguments, lease_start_time = 0,
\* escrow_balance = 0, is_leased = false), whatever record was there before.
C17_CreateUnguarded ==
  /\ \A id \in EscrowIds, c \in Accounts, o \in Offers :
       ENABLED create_escrow(id, c, o.landlord, o.rent_amount, o.lease_duration)
  /\ last.op = "create_escrow" =>
       /\ last.result = Ok
       /\ transfers = <<>>
       /\ last.id \in DOMAIN escrows
       /\ escrows[last.id] =
            [renter |-> last.caller, landlord |-> last.args[1],
             rent_amount |-> last.args[2], lease_duration |-> last.args[3],
             lease_start_time |-> 0, escrow_balance |-> 0, is_leased |-> FALSE]

\* create_escrow has just stored a fresh record under an identifier that had been
\* rented, and value paid into a replaced record is still in the contract
C17_Witness ==
  /\ last.op = "create_escrow"
  /\ last.id \in rented
  /\ overflow_checks
  /\ DOMAIN escrows = {last.id}
  /\ held > 0

\* C18: every stored record with is_leased = false has escrow_balance = 0 and
\* lease_start_time = 0, and so every successful cancel_lease transfers exactly 0.
C18_CreatedHoldsNothing ==
  /\ \A id \in DOMAIN escrows :
       ~escrows[id].is_leased =>
          (escrows[id].escrow_balance = 0 /\ escrows[id].lease_start_time = 0)
  /\ (last.op = "cancel_lease" /\ last.result = Ok)
       => transfers = <<Transfer(last.caller, 0, TRUE)>>

\* cancel_lease succeeded, with a transfer of 0, while the contract held value
C18_Witness ==
  /\ last.op = "cancel_lease"
  /\ last.result = Ok
  /\ transfers # <<>>
  /\ held > 0

\* C19: a message on an identifier leaves the records under all other identifiers
\* as they were; a successful rent changes only is_leased and lease_start_time of
\* its record, and a successful pay_rent only escrow_balance.
C19_Frame ==
  [][/\ \A x \in EscrowIds \ {last'.id} :
          /\ (x \in DOMAIN escrows') = (x \in DOMAIN escrows)
          /\ x \in DOMAIN escrows => escrows'[x] = escrows[x]
     /\ (last'.op = "rent" /\ last'.result = Ok) =>
          /\ last'.id \in DOMAIN escrows /\ last'.id \in DOMAIN escrows'
          /\ [escrows'[last'.id] EXCEPT !.is_leased = FALSE, !.lease_start_time = 0]
               = [escrows[last'.id] EXCEPT !.is_leased = FALSE, !.lease_start_time = 0]
     /\ (last'.op = "pay_rent" /\ last'.result = Ok) =>
          /\ last'.id \in DOMAIN escrows /\ last'.id \in DOMAIN escrows'
          /\ [escrows'[last'.id] EXCEPT !.escrow_balance = 0]
               = [escrows[last'.id] EXCEPT !.escrow_balance = 0]]_vars

\* pay_rent succeeded on one identifier while the other held a funded record
C19_Witness ==
  /\ last.op = "pay_rent"
  /\ last.result = Ok
  /\ \E x \in DOMAIN escrows \ {last.id} : escrows[x].escrow_balance > 0

\* C20: lease_ended never succeeds while now is smaller than lease_start_time +
\* lease_duration taken over the unbounded integers, also when that sum is larger
\* than the largest u64.
C20_ExpiryDoesNotWrap ==
  (last.op = "lease_ended" /\ last.result = Ok)
     => now >= Fetched.lease_start_time + Fetched.lease_duration
====
